---- MODULE Spec2Model ----
(***************************************************************************)
(* Model of the minion digest builder: the history store, the structured   *)
(* extractor, the four LLM agents and the grocery scanner, the agent       *)
(* runner and the two digest assemblers (minion.build_sections and         *)
(* orchestrator.build_digest).                                             *)
(*                                                                         *)
(* Text is a sequence of symbols.  A symbol is a TLA+ string standing for  *)
(* one structural character ("{", "}", "[", "]", ",", ":", the double      *)
(* quote), one run of whitespace (" "), one code fence ("<fence>") or one run  *)
(* of other characters (a word).  Python's str operations and regular      *)
(* expressions are translated onto symbol sequences.                       *)
(***************************************************************************)
EXTENDS Integers, Sequences, FiniteSets, TLC

VARIABLES
    storage,   \* the history file data/history.json
    today,     \* the day datetime.date.today() returns
    TODAY,     \* llm.TODAY: the day the process imported providers.llm
    call,      \* the last _run_agent call: its arguments and what it cost
    agent,     \* what the agent dispatched by that call did
    out,       \* what that call of _run_agent did
    ext,       \* what _extract_json returned inside that call
    nsaves,    \* number of _save_hist calls so far
    recorded,  \* history variable: every fingerprint math_hashes has held so far
    build      \* the digest assembly in progress

vars == <<storage, today, TODAY, call, agent, out, ext, nsaves, recorded, build>>

----------------------------------------------------------------------------
(* str helpers *)

WS == " "
QUOTE == "\""
FENCE == "<fence>"

RECURSIVE SkipWs(_, _)
\* index of the first symbol at or after i that is not whitespace (re: \s*)
SkipWs(s, i) == IF i <= Len(s) /\ s[i] = WS THEN SkipWs(s, i + 1) ELSE i

RECURSIVE SkipWsBack(_, _)
SkipWsBack(s, i) == IF i >= 1 /\ s[i] = WS THEN SkipWsBack(s, i - 1) ELSE i

\* str.strip()
Strip(s) ==
    LET a == SkipWs(s, 1)
        b == SkipWsBack(s, Len(s))
    IN  IF a > b THEN <<>> ELSE SubSeq(s, a, b)

\* str.lower(): upper-case words map to their lower-case form
LowerSym(c) == CASE c = "A" -> "a" [] c = "B" -> "b" [] OTHER -> c

Lower(s) == [i \in 1..Len(s) |-> LowerSym(s[i])]

\* str.find / str.rfind of one symbol: 0 stands for Python's -1
Find(s, c) ==
    IF \E i \in 1..Len(s) : s[i] = c
    THEN CHOOSE i \in 1..Len(s) : s[i] = c /\ \A j \in 1..(i - 1) : s[j] # c
    ELSE 0

RFind(s, c) ==
    IF \E i \in 1..Len(s) : s[i] = c
    THEN CHOOSE i \in 1..Len(s) : s[i] = c /\ \A j \in (i + 1)..Len(s) : s[j] # c
    ELSE 0

\* s[:n] for n > 0: the slice that would keep the oldest entries
FirstN(s, n) == IF Len(s) <= n THEN s ELSE SubSeq(s, 1, n)

\* s[-n:] for n > 0
LastN(s, n) == IF Len(s) <= n THEN s ELSE SubSeq(s, Len(s) - n + 1, Len(s))

\* s[:n] for any integer n (a negative n counts from the end)
SliceTo(s, n) ==
    IF n >= 0
    THEN SubSeq(s, 1, IF n < Len(s) THEN n ELSE Len(s))
    ELSE SubSeq(s, 1, IF Len(s) + n > 0 THEN Len(s) + n ELSE 0)

----------------------------------------------------------------------------
(* JSON values: [t |-> tag, v |-> payload]                                 *)
(*   "obj"  v = sequence of <<key, value>> pairs, keys distinct            *)
(*   "arr"  v = sequence of values                                         *)
(*   "str"  v = sequence of symbols                                        *)
(*   "num"  v = the number word, "lit" v = "true" | "false" | "null"       *)

JObj(pairs) == [t |-> "obj", v |-> pairs]
JArr(elems) == [t |-> "arr", v |-> elems]
JStr(s) == [t |-> "str", v |-> s]
JNum(w) == [t |-> "num", v |-> w]
JLit(w) == [t |-> "lit", v |-> w]
None == JLit("null")

NumberWords == {"0", "7", "12.5"}
LiteralWords == {"true", "false", "null"}

\* dict semantics of a repeated key: the last value wins
PutKey(pairs, k, val) ==
    IF \E i \in 1..Len(pairs) : pairs[i][1] = k
    THEN [i \in 1..Len(pairs) |-> IF pairs[i][1] = k THEN <<k, val>> ELSE pairs[i]]
    ELSE Append(pairs, <<k, val>>)

Fail == [ok |-> FALSE, val |-> None, pos |-> 0]
Ok(val, pos) == [ok |-> TRUE, val |-> val, pos |-> pos]

\* a JSON string starting at the quote s[i]: up to the next quote
ParseString(s, i) ==
    IF \E j \in (i + 1)..Len(s) : s[j] = QUOTE
    THEN LET j == CHOOSE j \in (i + 1)..Len(s) :
                      s[j] = QUOTE /\ \A k \in (i + 1)..(j - 1) : s[k] # QUOTE
         IN  Ok(SubSeq(s, i + 1, j - 1), j + 1)
    ELSE Fail

RECURSIVE ParseValue(_, _), ParseMembers(_, _, _), ParseElements(_, _, _)

\* json scanner: one value starting at s[i] (no leading whitespace)
ParseValue(s, i) ==
    IF i > Len(s) THEN Fail
    ELSE CASE s[i] = "{" ->
                LET j == SkipWs(s, i + 1)
                IN  IF j <= Len(s) /\ s[j] = "}"
                    THEN Ok(JObj(<<>>), j + 1)
                    ELSE ParseMembers(s, j, <<>>)
           [] s[i] = "[" ->
                LET j == SkipWs(s, i + 1)
                IN  IF j <= Len(s) /\ s[j] = "]"
                    THEN Ok(JArr(<<>>), j + 1)
                    ELSE ParseElements(s, j, <<>>)
           [] s[i] = QUOTE ->
                LET r == ParseString(s, i)
                IN  IF r.ok THEN Ok(JStr(r.val), r.pos) ELSE Fail
           [] s[i] \in NumberWords -> Ok(JNum(s[i]), i + 1)
           [] s[i] \in LiteralWords -> Ok(JLit(s[i]), i + 1)
           [] OTHER -> Fail

\* "key" : value pairs of an object, s[i] is where a key must start
ParseMembers(s, i, acc) ==
    IF i > Len(s) \/ s[i] # QUOTE THEN Fail
    ELSE LET k == ParseString(s, i)
         IN  IF ~k.ok THEN Fail
             ELSE LET c == SkipWs(s, k.pos)
                  IN  IF c > Len(s) \/ s[c] # ":" THEN Fail
                      ELSE LET v == ParseValue(s, SkipWs(s, c + 1))
                           IN  IF ~v.ok THEN Fail
                               ELSE LET e == SkipWs(s, v.pos)
                                        acc2 == PutKey(acc, k.val, v.val)
                                    IN  IF e > Len(s) THEN Fail
                                        ELSE IF s[e] = "}" THEN Ok(JObj(acc2), e + 1)
                                        ELSE IF s[e] = ","
                                             THEN ParseMembers(s, SkipWs(s, e + 1), acc2)
                                        ELSE Fail

\* values of an array, s[i] is where a value must start
ParseElements(s, i, acc) ==
    LET v == ParseValue(s, i)
    IN  IF ~v.ok THEN Fail
        ELSE LET e == SkipWs(s, v.pos)
                 acc2 == Append(acc, v.val)
             IN  IF e > Len(s) THEN Fail
                 ELSE IF s[e] = "]" THEN Ok(JArr(acc2), e + 1)
                 ELSE IF s[e] = "," THEN ParseElements(s, SkipWs(s, e + 1), acc2)
                 ELSE Fail

\* json.loads: [ok |-> FALSE] stands for the JSONDecodeError it raises
JsonLoads(s) ==
    LET r == ParseValue(s, SkipWs(s, 1))
    IN  IF r.ok /\ SkipWs(s, r.pos) > Len(s) THEN r ELSE Fail

----------------------------------------------------------------------------
(* Structured extractor *)

\* re.search(r"```(?:json)?\s*(\{.*\})\s*```", text, re.S) tried at fence p:
\* the indices e of a "}" that closes group 1 when the match starts at p
FenceOpen(s, p) ==
    SkipWs(s, IF p + 1 <= Len(s) /\ s[p + 1] = "json" THEN p + 2 ELSE p + 1)

FenceCloses(s, p) ==
    {e \in (FenceOpen(s, p) + 1)..Len(s) :
        /\ s[e] = "}"
        /\ SkipWs(s, e + 1) <= Len(s)
        /\ s[SkipWs(s, e + 1)] = FENCE}

FenceMatches(s, p) ==
    /\ s[p] = FENCE
    /\ FenceOpen(s, p) <= Len(s)
    /\ s[FenceOpen(s, p)] = "{"
    /\ FenceCloses(s, p) # {}

\* the text the extractor goes on with: group 1 of the leftmost match (its
\* greedy .* runs to the last "}" a fence follows), else the text itself
StripFence(s) ==
    IF \E p \in 1..Len(s) : FenceMatches(s, p)
    THEN LET p == CHOOSE p \in 1..Len(s) :
                      FenceMatches(s, p) /\ \A q \in 1..(p - 1) : ~FenceMatches(s, q)
             e == CHOOSE e \in FenceCloses(s, p) : \A f \in FenceCloses(s, p) : f <= e
         IN  SubSeq(s, FenceOpen(s, p), e)
    ELSE s

RECURSIVE ReSubTrailing(_, _, _)
\* re.sub(r",\s*" + closer, closer, s), scanning from index i
ReSubTrailing(s, closer, i) ==
    IF i > Len(s) THEN <<>>
    ELSE IF s[i] = "," /\ SkipWs(s, i + 1) <= Len(s) /\ s[SkipWs(s, i + 1)] = closer
         THEN <<closer>> \o ReSubTrailing(s, closer, SkipWs(s, i + 1) + 1)
         ELSE <<s[i]>> \o ReSubTrailing(s, closer, i + 1)

\* the candidate the fallback parses: text[start:end+1] after both re.sub calls
RepairCandidate(t, start, end) ==
    ReSubTrailing(ReSubTrailing(SubSeq(t, start, end), "}", 1), "]", 1)

\* what a json.loads attempt gives: the value, or other when it raised
Loaded(r, other) == IF r.ok THEN r.val ELSE other

\* lines 52-63: the fallback on the text between the first "{" and the last "}"
ExtractCandidate(t, start, end) ==
    IF start # 0 /\ end # 0 /\ end > start
    THEN Loaded(JsonLoads(RepairCandidate(t, start, end)), None)
    ELSE None

\* lines 46-63 on the text t left after the fence was stripped
ExtractText(t) == Loaded(JsonLoads(t), ExtractCandidate(t, Find(t, "{"), RFind(t, "}")))

\* _extract_json: the value returned (None is the absence signal)
_extract_json(text) == IF Len(text) = 0 THEN None ELSE ExtractText(StripFence(text))

----------------------------------------------------------------------------
(* Python values read out of the extracted data *)

\* bool(v)
Truthy(v) ==
    CASE v.t = "obj" -> Len(v.v) > 0
      [] v.t = "arr" -> Len(v.v) > 0
      [] v.t = "str" -> Len(v.v) > 0
      [] v.t = "num" -> v.v # "0"
      [] OTHER -> v.v = "true"

IsDict(v) == v.t = "obj"
IsList(v) == v.t = "arr"
IsStr(v) == v.t = "str"

\* d.get(k) on a dict d
DictGet(d, k) ==
    IF \E i \in 1..Len(d.v) : d.v[i][1] = k
    THEN d.v[CHOOSE i \in 1..Len(d.v) : d.v[i][1] = k][2]
    ELSE None

\* x or y
OrElse(x, y) == IF Truthy(x) THEN x ELSE y

\* (d.get(k) or "").strip(): raises when d is no dict or the value no str
StrField(d, k) ==
    IF ~IsDict(d) THEN [raised |-> TRUE, s |-> <<>>]
    ELSE LET v == OrElse(DictGet(d, k), JStr(<<>>))
         IN  IF IsStr(v) THEN [raised |-> FALSE, s |-> Strip(v.v)]
             ELSE [raised |-> TRUE, s |-> <<>>]

\* for x in (d.get(k) or []): the list walked; raises when d is no dict.
\* A truthy value that is no list (a str, a dict, a number, True) either
\* cannot be iterated or yields elements the loop body cannot read: both raise.
ListField(d, k) ==
    IF ~IsDict(d) THEN [raised |-> TRUE, l |-> <<>>]
    ELSE LET v == OrElse(DictGet(d, k), JArr(<<>>))
         IN  IF IsList(v) THEN [raised |-> FALSE, l |-> v.v]
             ELSE [raised |-> TRUE, l |-> <<>>]

----------------------------------------------------------------------------
(* Calendar: a day is its index in Iso, date.isoformat() is Iso[day] *)

Iso == << "2026-10-21", "2026-10-22", "2026-10-23", "2026-10-24", "2026-10-25",
          "2026-10-26", "2026-10-27", "2026-10-28", "2026-10-29", "2026-10-30",
          "2026-10-31", "2026-11-01", "2026-11-02", "2026-11-03", "2026-11-04" >>

\* datetime.date.fromisoformat succeeds on date_str
IsIsoDate(date_str) == Len(date_str) = 1 /\ \E d \in 1..Len(Iso) : Iso[d] = date_str[1]

DayOf(date_str) == CHOOSE d \in 1..Len(Iso) : Iso[d] = date_str[1]

\* _is_recent(date_str, days) called on day `now`
_is_recent(date_str, days, now) ==
    IF Len(date_str) = 0 THEN FALSE
    ELSE IF ~IsIsoDate(date_str) THEN FALSE
    ELSE now - DayOf(date_str) <= days

----------------------------------------------------------------------------
(* History store.  storage is the file data/history.json:                  *)
(*   kind "missing"    no file                                             *)
(*   kind "corrupt"    a file json.load cannot read                        *)
(*   kind "nonrecord"  valid JSON that is no object (a list)               *)
(*   kind "record"     a JSON object, rec holds its three slices           *)

DefaultHist == [math_hashes |-> <<>>, bible_refs |-> <<>>, last_horoscope_date |-> <<>>]

File(kind, rec) == [kind |-> kind, rec |-> rec]

\* _load_hist: isdict is FALSE when what json.load returned is no dict
_load_hist(st) ==
    IF st.kind = "missing" THEN [isdict |-> TRUE, rec |-> DefaultHist]
    ELSE IF st.kind = "record" THEN [isdict |-> TRUE, rec |-> st.rec]
    ELSE IF st.kind = "nonrecord" THEN [isdict |-> FALSE, rec |-> DefaultHist]
    ELSE [isdict |-> TRUE, rec |-> DefaultHist]

\* _save_hist: the file after json.dump(hist)
_save_hist(hist) == File("record", hist)

\* _sha: the SHA-1 hex digest, taken to be injective
_sha(s) == <<"sha1">> \o s

MathCap == 200
BibleCap == 60

----------------------------------------------------------------------------
(* Results of a call: a returned value or a raised exception *)

Return(sec) == [kind |-> "return", sec |-> sec, err |-> ""]
Raise(err) == [kind |-> "raise", sec |-> [heading |-> <<>>, items |-> <<>>], err |-> err]

\* an Item; image_url <<>> stands for None and for a missing key
Item(title, rendered, img) == [title |-> title, rendered |-> rendered, image_url |-> img]
Section(heading, items) == [heading |-> heading, items |-> items]

\* what an agent leaves behind: its result, the history file, the extracted
\* data, the backend requests it sent and the _save_hist calls it made
Done(res, st, data, calls, saves) ==
    [res |-> res, store |-> st, ext |-> data, calls |-> calls, saves |-> saves]

----------------------------------------------------------------------------
(* Backend wrappers.  A backend outcome is                                 *)
(*   [kind |-> "nokey"]           OPENAI_API_KEY is not set                *)
(*   [kind |-> "error"]           the request raised                       *)
(*   [kind |-> "text", text |-> t]  the response text                      *)

NoKey == [kind |-> "nokey", text |-> <<>>]
BackendError == [kind |-> "error", text |-> <<>>]
BackendText(t) == [kind |-> "text", text |-> t]

\* _client() raises outside the try block of its callers
ClientRaises(resp) == resp.kind = "nokey"

\* _call_chat: the text returned when _client() did not raise
_call_chat(resp) == IF resp.kind = "text" THEN Strip(resp.text) ELSE <<>>

\* _call_web_search: the text returned when _client() did not raise
_call_web_search(resp) == IF resp.kind = "text" THEN Strip(resp.text) ELSE <<>>

----------------------------------------------------------------------------
(* Backend responses the agents are run against *)

Str(s) == <<QUOTE>> \o s \o <<QUOTE>>
Member(k, v) == Str(<<k>>) \o <<":", WS>> \o v

RECURSIVE JoinComma(_)
JoinComma(ts) ==
    IF Len(ts) = 0 THEN <<>>
    ELSE IF Len(ts) = 1 THEN ts[1]
    ELSE ts[1] \o <<",", WS>> \o JoinComma(Tail(ts))

ObjT(members) == <<"{">> \o JoinComma(members) \o <<"}">>
ArrT(elems) == <<"[">> \o JoinComma(elems) \o <<"]">>

\* the same object wrapped the ways a model wraps its answer
Fenced(t) == <<"Here", WS, "you", WS, "go:", WS, FENCE, "json", WS>> \o t \o <<WS, FENCE>>
InProse(t) == <<"Sure:", WS>> \o t \o <<WS, "Enjoy!">>

Prob(p) == ObjT(<<Member("problem", Str(p)), Member("tip", Str(<<"think">>))>>)
MathT(ps) == ObjT(<<Member("math", ArrT(ps))>>)

\* texts no agent finds its data in
CommonTexts ==
    { <<"I", WS, "cannot", WS, "help.">>,
      ArrT(<<<<"7">>>>),
      <<"7">>,
      <<WS>> }

MathTexts ==
    { MathT(<<Prob(<<"A">>), Prob(<<"b">>)>>),
      MathT(<<Prob(<<"a">>), Prob(<<WS, "A", WS>>)>>),
      MathT(<<Prob(<<"b">>), Prob(<<"c">>), Prob(<<"a">>)>>),
      MathT(<<Prob(<<"a">>)>>),
      Fenced(MathT(<<Prob(<<"c">>)>>)),
      \* a trailing comma after the last problem, inside prose
      InProse(ObjT(<<Member("math", <<"[">> \o Prob(<<"b">>) \o <<",", WS, "]">>)>>)),
      \* a problem that quotes a list with a trailing comma, inside prose
      InProse(MathT(<<Prob(<<"Sum", WS, "[", "7", ",", WS, "]">>)>>)),
      MathT(<<Prob(<<WS>>)>>),
      MathT(<<Str(<<"a">>)>>),
      ObjT(<<Member("math", <<"7">>)>>),
      ObjT(<<Member("math", ArrT(<<ObjT(<<Member("problem", <<"7">>)>>)>>))>>) }

Verse(ref, text) ==
    ObjT(<<Member("bible", ObjT(<<Member("reference", Str(ref)), Member("text", Str(text))>>))>>)

BibleTexts ==
    { Verse(<<"John", WS, "3:16">>, <<"For", WS, "God">>),
      Verse(<<"Ps", WS, "23:1">>, <<"The", WS, "Lord">>),
      InProse(Verse(<<"John", WS, "3:16">>, <<"For", WS, "God">>)),
      Verse(<<"John", WS, "3:16">>, <<WS>>),
      ObjT(<<Member("bible", Str(<<"John", WS, "3:16">>))>>) }

Reading(daily, week) ==
    ObjT(<<Member("horoscope", ObjT(<<Member("daily", Str(daily)), Member("week", Str(week))>>))>>)

HoroscopeTexts ==
    { Reading(<<"Steady", WS, "day">>, <<"Rest">>),
      Fenced(Reading(<<"Busy", WS, "day">>, <<>>)),
      Reading(<<>>, <<"Rest">>),
      ObjT(<<Member("horoscope", ArrT(<<Str(<<"Steady">>)>>))>>) }

ChatOutcomes(texts) == {NoKey, BackendError} \cup {BackendText(t) : t \in texts \cup CommonTexts}

FirstDay == 11

\* the ISO date k days before FirstDay (after it when k < 0)
D(k) == <<Iso[FirstDay - k]>>

Url == <<"https://example.org/a">>

RECURSIVE Members(_)
\* the members "key": "value" of an entry, from a sequence of <<key, words>>
Members(fs) ==
    IF Len(fs) = 0 THEN <<>>
    ELSE <<Member(fs[1][1], Str(fs[1][2]))>> \o Members(Tail(fs))

Entry(fs) == ObjT(Members(fs))
Answer(key, entries) == ObjT(<<Member(key, ArrT(entries))>>)

Offer(item, date, url) ==
    ObjT(<<Member("item", Str(item)), Member("store", Str(<<"Netto">>)),
           Member("price_dkk", <<"12.5">>), Member("observed_date", Str(date)),
           Member("source_url", Str(url))>>)

Fight(ev, date, url) ==
    Entry(<< <<"event", ev>>, <<"date", date>>, <<"detail", <<"Main", WS, "card">>>>,
             <<"source_url", url>> >>)

Study(title, date, url) ==
    Entry(<< <<"title", title>>, <<"authors", <<"Doe">>>>, <<"date", date>>,
             <<"source_url", url>> >>)

News(hl, date, url) ==
    Entry(<< <<"headline", hl>>, <<"date", date>>, <<"what_happened", <<"It", WS, "did">>>>,
             <<"source_url", url>> >>)

SearchTexts(schema) ==
    CASE schema = "grocery_prices" ->
           { Answer("grocery_prices", <<Offer(<<"eggs">>, D(5), Url), Offer(<<"beef">>, D(9), Url),
                                        Offer(<<"milk">>, D(5), <<>>),
                                        Offer(<<"oats">>, <<"last", WS, "week">>, Url)>>),
             Answer("grocery_prices", <<Offer(<<"rice">>, D(-2), Url)>>),
             Answer("grocery_prices", <<Offer(<<"beef">>, D(9), Url)>>) }
      [] schema = "mma_news" ->
           { Answer("mma", <<Fight(<<"UFC1">>, D(0), Url), Fight(<<"UFC2">>, D(5), Url),
                             Fight(<<"UFC3">>, D(1), <<>>)>>),
             Answer("mma", <<Fight(<<"UFC4">>, <<>>, Url)>>) }
      [] schema = "science_spirit" ->
           { Answer("studies", <<Study(<<"Qubits">>, D(1), Url), Study(<<"Minds">>, D(9), Url),
                                 Study(<<"Waves">>, <<"2019">>, Url)>>),
             Answer("studies", <<Study(<<"Fields">>, D(1), <<>>), Study(<<"Atoms">>, <<>>, Url)>>) }
      [] schema = "good_news" ->
           { Answer("news", <<News(<<"Reef">>, D(2), Url), News(<<"Dam">>, D(10), Url),
                              News(<<"Owl">>, D(1), <<WS>>)>>),
             Fenced(Answer("news", <<News(<<"Dam">>, D(10), Url)>>)) }
      [] OTHER ->
           { Answer("bullets", <<Str(<<"Rain", WS>> \o Url),
                                 Str(<<"Sun", WS, "tomorrow">>), Str(<<>>), Str(<<"Wind">>)>>),
             Answer("bullets", <<<<"7">>>>) }

Schemas == {"grocery_prices", "mma_news", "science_spirit", "good_news", "bullets"}

SearchOutcomes(schema) ==
    {NoKey, BackendError} \cup {BackendText(t) : t \in SearchTexts(schema) \cup CommonTexts}

AllTexts ==
    MathTexts \cup BibleTexts \cup HoroscopeTexts \cup CommonTexts
        \cup UNION {SearchTexts(schema) : schema \in Schemas}

\* _extract_json on the texts the backend is modelled to answer, computed once
ExtractTable == [t \in {Strip(t) : t \in AllTexts} |-> _extract_json(t)]

\* the value _extract_json(text) has, read from tab when tab holds it
Lookup(tab, text) == IF text \in DOMAIN tab THEN tab[text] ELSE _extract_json(text)

\* the call _extract_json(text) as the agents make it
Extract(text) == Lookup(ExtractTable, text)

----------------------------------------------------------------------------
(* llm_math *)

TipMark == "<br><em>Tip:</em> "
problem_types == << <<"Computational Problem">>, <<"Proof Problem">> >>

\* a seen set that forgets the history
SeenNothing(hashes) == {}

\* set(hist.get("math_hashes", []))
Seen(hashes) == {hashes[i] : i \in 1..Len(hashes)}

RECURSIVE MathLoop(_, _, _, _, _)
\* the for loop over enumerate(problems), from index idx (1-based)
MathLoop(problems, idx, seen, items, new_hashes) ==
    IF idx > Len(problems)
    THEN [raised |-> FALSE, items |-> items, new_hashes |-> new_hashes]
    ELSE LET prob == StrField(problems[idx], <<"problem">>)
             tip == StrField(problems[idx], <<"tip">>)
             title == IF idx <= Len(problem_types) THEN problem_types[idx] ELSE <<"Math">>
         IN  IF prob.raised \/ tip.raised
             THEN [raised |-> TRUE, items |-> items, new_hashes |-> new_hashes]
             ELSE IF Len(prob.s) = 0 \/ _sha(Lower(prob.s)) \in seen
                  THEN MathLoop(problems, idx + 1, seen, items, new_hashes)
                  ELSE MathLoop(problems, idx + 1, seen,
                                Append(items, Item(title, prob.s \o <<TipMark>> \o tip.s, <<>>)),
                                Append(new_hashes, _sha(Lower(prob.s))))

\* hist["math_hashes"] = (hist.get("math_hashes", []) + new_hashes)[-200:]
MathHistory(rec, new_hashes) ==
    [rec EXCEPT !.math_hashes = LastN(rec.math_hashes \o new_hashes, MathCap)]

\* llm_math once the loop has run: the fallback, or save and return
llm_math_return(heading, st, hist, txt, raw, loop) ==
    IF loop.raised THEN Done(Raise("AttributeError"), st, raw, 1, 0)
    ELSE IF Len(loop.items) = 0
         THEN Done(Return(Section(heading, <<Item(<<"Math (fallback)">>, txt, <<>>)>>)),
                   st, raw, 1, 0)
    ELSE Done(Return(Section(heading, loop.items)),
              _save_hist(MathHistory(hist.rec, loop.new_hashes)), raw, 1, 1)

\* llm_math once data.get("math") or [] was read: got.l[:2] is walked
llm_math_loop(heading, st, hist, txt, raw, got) ==
    IF got.raised THEN Done(Raise("AttributeError"), st, raw, 1, 0)
    ELSE llm_math_return(heading, st, hist, txt, raw,
                         MathLoop(SliceTo(got.l, 2), 1, Seen(hist.rec.math_hashes), <<>>, <<>>))

\* llm_math once the response text was extracted: data = raw or {}
llm_math_data(heading, st, hist, txt, raw) ==
    llm_math_loop(heading, st, hist, txt, raw, ListField(OrElse(raw, JObj(<<>>)), <<"math">>))

\* llm_math once _call_chat returned txt
llm_math_text(heading, st, hist, txt) == llm_math_data(heading, st, hist, txt, Extract(txt))

\* llm_math once the history was loaded
llm_math_hist(heading, resp, st, hist) ==
    IF ~hist.isdict THEN Done(Raise("AttributeError"), st, None, 0, 0)
    ELSE IF ClientRaises(resp) THEN Done(Raise("RuntimeError"), st, None, 0, 0)
    ELSE llm_math_text(heading, st, hist, _call_chat(resp))

llm_math(cfg, heading, resp, st) == llm_math_hist(heading, resp, st, _load_hist(st))

----------------------------------------------------------------------------
(* llm_bible *)

\* hist["bible_refs"] = (recent + [ref])[-60:]
BibleHistory(rec, ref) ==
    [rec EXCEPT !.bible_refs = LastN(rec.bible_refs \o <<ref>>, BibleCap)]

\* llm_bible once reference and text were read
llm_bible_return(heading, st, hist, txt, raw, ref, text) ==
    IF ref.raised \/ text.raised THEN Done(Raise("AttributeError"), st, raw, 1, 0)
    ELSE IF Len(ref.s) = 0 \/ Len(text.s) = 0
         THEN Done(Return(Section(heading,
                    <<Item(<<"Bible (fallback)">>,
                           IF Len(txt) > 0 THEN txt ELSE <<"No verse.">>, <<>>)>>)),
                   st, raw, 1, 0)
    ELSE Done(Return(Section(heading,
                    <<Item(ref.s, ref.s \o <<" - ">> \o text.s, <<>>)>>)),
              _save_hist(BibleHistory(hist.rec, ref.s)), raw, 1, 1)

\* llm_bible once b = data.get("bible") or {} was read
llm_bible_verse(heading, st, hist, txt, raw, b) ==
    llm_bible_return(heading, st, hist, txt, raw,
                     StrField(b, <<"reference">>), StrField(b, <<"text">>))

\* llm_bible once data = raw or {} was computed
llm_bible_data(heading, st, hist, txt, raw, data) ==
    IF ~IsDict(data) THEN Done(Raise("AttributeError"), st, raw, 1, 0)
    ELSE llm_bible_verse(heading, st, hist, txt, raw,
                         OrElse(DictGet(data, <<"bible">>), JObj(<<>>)))

\* llm_bible once the response text was extracted
llm_bible_raw(heading, st, hist, txt, raw) ==
    llm_bible_data(heading, st, hist, txt, raw, OrElse(raw, JObj(<<>>)))

\* llm_bible once _call_chat returned txt
llm_bible_text(heading, st, hist, txt) == llm_bible_raw(heading, st, hist, txt, Extract(txt))

\* llm_bible once the history was loaded
llm_bible_hist(heading, resp, st, hist) ==
    IF ~hist.isdict THEN Done(Raise("AttributeError"), st, None, 0, 0)
    ELSE IF ClientRaises(resp) THEN Done(Raise("RuntimeError"), st, None, 0, 0)
    ELSE llm_bible_text(heading, st, hist, _call_chat(resp))

llm_bible(cfg, heading, resp, st) == llm_bible_hist(heading, resp, st, _load_hist(st))

----------------------------------------------------------------------------
(* llm_horoscope, called on day `now` *)

WeekMark == "<br><br><strong>Week:</strong> "

\* a save that would write a fresh record holding only the date
HoroscopeReset(rec, now) == [DefaultHist EXCEPT !.last_horoscope_date = <<Iso[now]>>]

\* hist["last_horoscope_date"] = today
HoroscopeHistory(rec, now) == [rec EXCEPT !.last_horoscope_date = <<Iso[now]>>]

\* llm_horoscope once daily and week were read
llm_horoscope_return(heading, st, hist, txt, raw, now, daily, week) ==
    IF daily.raised \/ week.raised THEN Done(Raise("AttributeError"), st, raw, 1, 0)
    ELSE IF Len(daily.s) = 0
         THEN Done(Return(Section(heading, <<Item(<<"Horoscope (fallback)">>, txt, <<>>)>>)),
                   st, raw, 1, 0)
    \* hist["last_horoscope_date"] = today on a list
    ELSE IF ~hist.isdict THEN Done(Raise("TypeError"), st, raw, 1, 0)
    ELSE Done(Return(Section(heading,
                    <<Item(<<"Today">>, daily.s \o <<WeekMark>> \o week.s, <<>>)>>)),
              _save_hist(HoroscopeHistory(hist.rec, now)), raw, 1, 1)

\* llm_horoscope once h = data.get("horoscope") or {} was read
llm_horoscope_reading(heading, st, hist, txt, raw, now, h) ==
    llm_horoscope_return(heading, st, hist, txt, raw, now,
                         StrField(h, <<"daily">>), StrField(h, <<"week">>))

\* llm_horoscope once data = raw or {} was computed
llm_horoscope_data(heading, st, hist, txt, raw, now, data) ==
    IF ~IsDict(data) THEN Done(Raise("AttributeError"), st, raw, 1, 0)
    ELSE llm_horoscope_reading(heading, st, hist, txt, raw, now,
                               OrElse(DictGet(data, <<"horoscope">>), JObj(<<>>)))

\* llm_horoscope once the response text was extracted
llm_horoscope_raw(heading, st, hist, txt, raw, now) ==
    llm_horoscope_data(heading, st, hist, txt, raw, now, OrElse(raw, JObj(<<>>)))

\* llm_horoscope once _call_chat returned txt
llm_horoscope_text(heading, st, hist, txt, now) ==
    llm_horoscope_raw(heading, st, hist, txt, Extract(txt), now)

\* a variant that generates nothing when the stored date is already today's
llm_horoscope_gated(heading, resp, st, hist, now) ==
    IF hist.isdict /\ hist.rec.last_horoscope_date = <<Iso[now]>>
    THEN Done(Return(Section(heading, <<Item(<<"Horoscope (fallback)">>, <<>>, <<>>)>>)),
              st, None, 0, 0)
    ELSE IF ClientRaises(resp) THEN Done(Raise("RuntimeError"), st, None, 0, 0)
    ELSE llm_horoscope_text(heading, st, hist, _call_chat(resp), now)

\* llm_horoscope once the history was loaded
llm_horoscope_hist(heading, resp, st, hist, now) ==
    IF ClientRaises(resp) THEN Done(Raise("RuntimeError"), st, None, 0, 0)
    ELSE llm_horoscope_text(heading, st, hist, _call_chat(resp), now)

llm_horoscope(cfg, heading, resp, st, now) ==
    llm_horoscope_hist(heading, resp, st, _load_hist(st), now)

----------------------------------------------------------------------------
(* llm_search, called on day `now` in a process that was started (and set  *)
(* the module constant TODAY) on day `imported`                            *)

\* cfg.get(key, default) on an agent configuration
CfgGet(cfg, key, default) == IF key \in DOMAIN cfg.opts THEN cfg.opts[key] ELSE default

\* float(price): ok is FALSE when it raises (price_val = None)
FloatOf(v) ==
    CASE v.t = "num" -> [ok |-> TRUE, w |-> v.v]
      [] v.t = "str" -> IF Len(Strip(v.v)) = 1 /\ Strip(v.v)[1] \in NumberWords
                        THEN [ok |-> TRUE, w |-> Strip(v.v)[1]]
                        ELSE [ok |-> FALSE, w |-> ""]
      [] v.t = "lit" /\ v.v = "true" -> [ok |-> TRUE, w |-> "1"]
      [] v.t = "lit" /\ v.v = "false" -> [ok |-> TRUE, w |-> "0"]
      [] OTHER -> [ok |-> FALSE, w |-> ""]

\* f"{price_val:.2f}"
Fmt2(w) == CASE w = "0" -> "0.00" [] w = "1" -> "1.00" [] w = "7" -> "7.00"
             [] w = "12.5" -> "12.50" [] OTHER -> w

Skip == [raised |-> FALSE, accept |-> FALSE, item |-> Item(<<>>, <<>>, <<>>)]
Boom == [raised |-> TRUE, accept |-> FALSE, item |-> Item(<<>>, <<>>, <<>>)]
Accept(it) == [raised |-> FALSE, accept |-> TRUE, item |-> it]

GroceryEntry(g, now) ==
    LET item == StrField(g, <<"item">>)
        store == StrField(g, <<"store">>)
        date == StrField(g, <<"observed_date">>)
        url == StrField(g, <<"source_url">>)
        img == StrField(g, <<"image_url">>)
        price == IF IsDict(g) THEN FloatOf(DictGet(g, <<"price_dkk">>)) ELSE FloatOf(None)
    IN  IF item.raised \/ store.raised \/ date.raised \/ url.raised \/ img.raised THEN Boom
        ELSE IF Len(item.s) > 0 /\ Len(store.s) > 0 /\ price.ok /\ Len(url.s) > 0
                /\ _is_recent(date.s, 7, now)
             THEN Accept(Item(item.s \o <<" - ">> \o store.s,
                              <<"<strong>">> \o item.s \o <<"</strong> - ">> \o store.s
                                \o <<" - <strong>", Fmt2(price.w), " DKK</strong> - ">>
                                \o date.s \o <<" - <a href='">> \o url.s
                                \o <<"'>view source</a>">>,
                              img.s))
             ELSE Skip

MmaEntry(m, now, imported) ==
    LET ev == StrField(m, <<"event">>)
        dt == StrField(m, <<"date">>)
        hl == StrField(m, <<"headline">>)
        de == StrField(m, <<"detail">>)
        od == StrField(m, <<"odds">>)
        url == StrField(m, <<"source_url">>)
        img == StrField(m, <<"image_url">>)
        name == IF Len(ev.s) > 0 THEN ev.s ELSE hl.s
    IN  IF ev.raised \/ dt.raised \/ hl.raised \/ de.raised \/ od.raised \/ url.raised
           \/ img.raised THEN Boom
        ELSE IF Len(url.s) > 0 /\ (dt.s = <<Iso[imported]>> \/ _is_recent(dt.s, 3, now))
                /\ Len(name) > 0
             THEN Accept(Item(name,
                              <<"<strong>">> \o name \o <<"</strong> - ">> \o dt.s
                                \o <<"<br>">> \o de.s
                                \o (IF Len(od.s) > 0 THEN <<"<br>Odds: ">> \o od.s ELSE <<>>)
                                \o <<"<br><a href='">> \o url.s \o <<"'>source</a>">>,
                              img.s))
             ELSE Skip

StudyEntry(e) ==
    LET title == StrField(e, <<"title">>)
        authors == StrField(e, <<"authors">>)
        venue == StrField(e, <<"venue_or_institution">>)
        dt == StrField(e, <<"date">>)
        summ == StrField(e, <<"summary">>)
        url == StrField(e, <<"source_url">>)
        img == StrField(e, <<"image_url">>)
    IN  IF title.raised \/ authors.raised \/ venue.raised \/ dt.raised \/ summ.raised
           \/ url.raised \/ img.raised THEN Boom
        ELSE IF Len(title.s) > 0 /\ Len(url.s) > 0 /\ Len(dt.s) > 0
             THEN Accept(Item(title.s,
                              <<"<strong>">> \o title.s \o <<"</strong><br>">> \o authors.s
                                \o <<" - ">> \o venue.s \o <<" - ">> \o dt.s \o <<"<br>">>
                                \o summ.s \o <<"<br><a href='">> \o url.s \o <<"'>source</a>">>,
                              img.s))
             ELSE Skip

NewsEntry(n, now, imported) ==
    LET hl == StrField(n, <<"headline">>)
        dt == StrField(n, <<"date">>)
        wh == StrField(n, <<"what_happened">>)
        url == StrField(n, <<"source_url">>)
        img == StrField(n, <<"image_url">>)
    IN  IF hl.raised \/ dt.raised \/ wh.raised \/ url.raised \/ img.raised THEN Boom
        ELSE IF Len(hl.s) > 0 /\ Len(url.s) > 0
                /\ (_is_recent(dt.s, 3, now) \/ dt.s = <<Iso[imported]>>)
             THEN Accept(Item(hl.s,
                              <<"<strong>">> \o hl.s \o <<"</strong> - ">> \o dt.s
                                \o <<"<br>">> \o wh.s \o <<"<br><a href='">> \o url.s
                                \o <<"'>source</a>">>,
                              img.s))
             ELSE Skip

\* add_it(heading, b, None) for a truthy bullet b, whatever its type
BulletEntry(b, heading) ==
    IF Truthy(b)
    THEN Accept(Item(heading, IF IsStr(b) THEN b.v ELSE <<"<", b.t, ">">>, <<>>))
    ELSE Skip

\* the key of the response list each schema reads
SchemaKey(schema) ==
    CASE schema = "grocery_prices" -> <<"grocery_prices">>
      [] schema = "mma_news" -> <<"mma">>
      [] schema = "science_spirit" -> <<"studies">>
      [] schema = "good_news" -> <<"news">>
      [] OTHER -> <<"bullets">>

SearchEntry(schema, e, heading, now, imported) ==
    CASE schema = "grocery_prices" -> GroceryEntry(e, now)
      [] schema = "mma_news" -> MmaEntry(e, now, imported)
      [] schema = "science_spirit" -> StudyEntry(e)
      [] schema = "good_news" -> NewsEntry(e, now, imported)
      [] OTHER -> BulletEntry(e, heading)

RECURSIVE SearchLoop(_, _, _, _, _, _, _)

\* one pass of the loop body, r being what the entry at idx gave
SearchStep(schema, l, idx, items, heading, now, imported, r) ==
    IF r.raised THEN [raised |-> TRUE, items |-> items]
    ELSE SearchLoop(schema, l, idx + 1,
                    IF r.accept THEN Append(items, r.item) ELSE items,
                    heading, now, imported)

\* the for loop of the schema's branch, from index idx
SearchLoop(schema, l, idx, items, heading, now, imported) ==
    IF idx > Len(l) THEN [raised |-> FALSE, items |-> items]
    ELSE SearchStep(schema, l, idx, items, heading, now, imported,
                    SearchEntry(schema, l[idx], heading, now, imported))

\* a return that adds the raw text whether or not items were accepted
llm_search_with_raw(heading, st, raw, got, loop) ==
    IF loop.raised THEN Done(Raise("AttributeError"), st, got, 1, 0)
    ELSE Done(Return(Section(heading,
                Append(loop.items,
                       Item(heading, IF Len(raw) > 0 THEN raw ELSE <<"No results found.">>,
                            <<>>)))),
              st, got, 1, 0)

\* llm_search once the schema's loop has run
llm_search_return(heading, st, raw, got, loop) ==
    IF loop.raised THEN Done(Raise("AttributeError"), st, got, 1, 0)
    ELSE IF Len(loop.items) = 0
         THEN Done(Return(Section(heading,
                    <<Item(heading,
                           IF Len(raw) > 0 THEN raw ELSE <<"No results found.">>,
                           <<>>)>>)),
                   st, got, 1, 0)
    ELSE Done(Return(Section(heading, loop.items)), st, got, 1, 0)

\* llm_search once the schema's list l was read out of data
llm_search_loop(schema, heading, st, now, imported, raw, got, l) ==
    IF l.raised THEN Done(Raise("AttributeError"), st, got, 1, 0)
    ELSE llm_search_return(heading, st, raw, got,
                           SearchLoop(schema, l.l, 1, <<>>, heading, now, imported))

\* llm_search once the response text was extracted: data = _extract_json(raw) or {}
llm_search_data(schema, heading, st, now, imported, raw, got) ==
    llm_search_loop(schema, heading, st, now, imported, raw, got,
                    ListField(OrElse(got, JObj(<<>>)), SchemaKey(schema)))

\* llm_search once _call_web_search returned raw
llm_search_raw(schema, heading, st, now, imported, raw) ==
    llm_search_data(schema, heading, st, now, imported, raw, Extract(raw))

llm_search(cfg, heading, resp, st, now, imported) ==
    IF ClientRaises(resp) THEN Done(Raise("RuntimeError"), st, None, 0, 0)
    ELSE llm_search_raw(CfgGet(cfg, "schema", "bullets"), heading, st, now, imported,
                        _call_web_search(resp))

----------------------------------------------------------------------------
(* groceries.fetch_groceries, called on day `now`.  pages[i] is what        *)
(* _text_from_url returned for the i-th retailer: ok FALSE for "" (the     *)
(* request failed or the page is empty), else the keywords the lower-cased *)
(* page contains.  Keywords are written in ASCII.                          *)

KEYWORDS == << "aeg", "hakket oksekoed", "graesk yoghurt", "blaabaer", "soede kartofler",
               "soedekartofler", "hytteost", "peanut butter" >>

RETAILS == << [name |-> "netto", cap |-> "Netto", url |-> "https://netto.dk/tilbudsavis/"],
              [name |-> "rema1000", cap |-> "Rema1000", url |-> "https://rema1000.dk/tilbudsavis/"],
              [name |-> "lidl", cap |-> "Lidl", url |-> "https://www.lidl.dk/tilbudsavis"],
              [name |-> "coop", cap |-> "Coop", url |-> "https://coop.dk/tilbudsavis"],
              [name |-> "bilka", cap |-> "Bilka", url |-> "https://www.bilka.dk/tilbudsavis"] >>

RECURSIVE KeywordLoop(_, _, _, _, _)
\* for kw in KEYWORDS, from index k, for retailer r
KeywordLoop(pages, r, k, items, now) ==
    IF k > Len(KEYWORDS) THEN items
    ELSE KeywordLoop(pages, r, k + 1,
             IF KEYWORDS[k] \in pages[r].words
             THEN Append(items,
                    Item(<<KEYWORDS[k], " - ", RETAILS[r].cap>>,
                         <<"<strong>", KEYWORDS[k], "</strong> appears in ", RETAILS[r].cap,
                           " weekly ad. <a href='", RETAILS[r].url,
                           "'>view ad</a> - discovered ", Iso[now]>>,
                         <<>>))
             ELSE items,
             now)

RECURSIVE RetailLoop(_, _, _, _)
\* for name, url in RETAILS.items(), from index r
RetailLoop(pages, r, items, now) ==
    IF r > Len(RETAILS) THEN items
    ELSE RetailLoop(pages, r + 1,
             IF pages[r].ok THEN KeywordLoop(pages, r, 1, items, now) ELSE items,
             now)

fetch_groceries(cfg, heading, pages, st, now) ==
    LET items == RetailLoop(pages, 1, <<>>, now)
    IN  Done(Return(Section(heading,
                IF Len(items) = 0
                THEN <<Item(heading, <<"No grocery offers found by simple parser.">>, <<>>)>>
                ELSE items)),
             st, None, 0, 0)

----------------------------------------------------------------------------
(* orchestrator._run_agent.  An agent configuration is                     *)
(*   [isdict |-> TRUE, opts |-> the mapping]  or                           *)
(*   [isdict |-> FALSE, opts |-> <<>>]        a YAML scalar, list or null  *)

Cfg(opts) == [isdict |-> TRUE, opts |-> opts]
NonDictCfg == [isdict |-> FALSE, opts |-> <<>>]

\* the dispatch of lines 33-46 on agent type t, and what the agent called does
Dispatch(t, agent_cfg, heading, resp, pages, st, now, imported) ==
    CASE t = "llm_math" -> llm_math(agent_cfg, heading, resp, st)
      [] t = "llm_bible" -> llm_bible(agent_cfg, heading, resp, st)
      [] t = "llm_horoscope" -> llm_horoscope(agent_cfg, heading, resp, st, now)
      [] t = "llm_search" -> llm_search(agent_cfg, heading, resp, st, now, imported)
      [] t = "groceries" -> fetch_groceries(agent_cfg, heading, pages, st, now)
      [] OTHER -> Done(Return(Section(heading,
                           <<Item(<<"(agent error)">>, <<"Unknown agent type: ", t>>, <<>>)>>)),
                       st, None, 0, 0)

\* the except handler of lines 51-55 when the dispatched agent a has raised.
\* Every agent returns a dict with an "items" key, so the structure check of
\* lines 48-49 passes whenever the agent returns.  The result also carries
\* what the dispatched agent itself did (agent).
Handle(t, heading, a) ==
    [res |-> IF a.res.kind = "raise"
             THEN Return(Section(heading,
                    <<Item(<<"(agent exception)">>,
                           <<"Agent ", t, " failed: ", a.res.err>>, <<>>)>>))
             ELSE a.res,
     store |-> a.store, ext |-> a.ext, calls |-> a.calls, saves |-> a.saves,
     agent |-> a.res]

\* _run_agent with agent_type = agent_cfg.get("type")
_run_agent_type(t, agent_cfg, heading, resp, pages, st, now, imported) ==
    Handle(t, heading, Dispatch(t, agent_cfg, heading, resp, pages, st, now, imported))

_run_agent(agent_cfg, heading, resp, pages, st, now, imported) ==
    \* agent_cfg.get raises in the try block and again in the handler
    IF ~agent_cfg.isdict
    THEN [res |-> Raise("AttributeError"), store |-> st, ext |-> None, calls |-> 0,
          saves |-> 0, agent |-> Raise("")]
    ELSE _run_agent_type(CfgGet(agent_cfg, "type", "None"), agent_cfg, heading, resp, pages,
                         st, now, imported)

----------------------------------------------------------------------------
(* Inputs of the runner *)

Page(ok, words) == [ok |-> ok, words |-> words]
NoPage == Page(FALSE, {})
NoPages == <<NoPage, NoPage, NoPage, NoPage, NoPage>>

GroceryPages ==
    { NoPages,
      <<Page(TRUE, {}), NoPage, NoPage, NoPage, NoPage>>,
      <<Page(TRUE, {"aeg"}), NoPage, NoPage, NoPage, NoPage>>,
      <<Page(TRUE, {"hytteost", "aeg"}), NoPage, Page(TRUE, {"blaabaer"}), NoPage,
        Page(TRUE, {"aeg", "peanut butter", "hytteost"})>> }

Headings == {<<"Math">>}

MathOutcomes == ChatOutcomes(MathTexts)
BibleOutcomes == ChatOutcomes(BibleTexts)
HoroscopeOutcomes == ChatOutcomes(HoroscopeTexts)
SearchOutcomeTable == [schema \in Schemas |-> SearchOutcomes(schema)]

----------------------------------------------------------------------------
(* Initial history files *)

OldHashes(n) == [i \in 1..n |-> _sha(<<"old", ToString(i)>>)]
OldRefs(n) == [i \in 1..n |-> <<"Gen", WS, ToString(i)>>]

\* a history file after many runs: both slices are full
FullHist ==
    [math_hashes |-> <<_sha(<<"a">>)>> \o OldHashes(MathCap - 1),
     bible_refs |-> <<<<"Ps", WS, "23:1">>>> \o OldRefs(BibleCap - 1),
     last_horoscope_date |-> D(1)]

InitialFiles ==
    { File("missing", DefaultHist), File("corrupt", DefaultHist),
      File("nonrecord", DefaultHist), File("record", FullHist) }

MaxSaves == 1

NoCall == [cfg |-> NonDictCfg, heading |-> <<>>, resp |-> BackendError, pages |-> NoPages,
           calls |-> 0, saves |-> 0, fn |-> "none"]
NoResult == Raise("")
\* no digest is being assembled
NoBuild ==
    [pc |-> "idle", entry |-> "none", doc |-> [defaults |-> <<>>, topics |-> <<>>],
     max_items |-> 0, t |-> 0, a |-> 0, heading |-> <<>>, combined |-> <<>>, sections |-> <<>>]

Init ==
    /\ storage \in InitialFiles
    /\ today = FirstDay
    /\ TODAY = FirstDay
    /\ call = NoCall
    /\ agent = NoResult
    /\ out = NoResult
    /\ ext = None
    /\ nsaves = 0
    /\ recorded = Seen(_load_hist(storage).rec.math_hashes)
    /\ build = NoBuild

\* the state after a call of _run_agent that has done r
Ran(agent_cfg, heading, resp, pages, limit, r) ==
    /\ nsaves + r.saves <= limit
    /\ storage' = r.store
    /\ call' = [cfg |-> agent_cfg, heading |-> heading, resp |-> resp, pages |-> pages,
                calls |-> r.calls, saves |-> r.saves, fn |-> "_run_agent"]
    /\ agent' = r.agent
    /\ out' = r.res
    /\ ext' = r.ext
    /\ nsaves' = nsaves + r.saves
    /\ recorded' = recorded \cup Seen(_load_hist(r.store).rec.math_hashes)

\* one call _run_agent(agent_cfg, heading) with the backend answering resp
\* (the retailers' pages being pages), while no more than limit saves are made
RunAgent(agent_cfg, heading, resp, pages, limit) ==
    Ran(agent_cfg, heading, resp, pages, limit,
        _run_agent(agent_cfg, heading, resp, pages, storage, today, TODAY))

RunMath ==
    \E h \in Headings, resp \in MathOutcomes :
        /\ RunAgent(Cfg([type |-> "llm_math"]), h, resp, NoPages, MaxSaves)
        /\ UNCHANGED <<today, TODAY, build>>

RunBible ==
    \E h \in Headings, resp \in BibleOutcomes :
        /\ RunAgent(Cfg([type |-> "llm_bible"]), h, resp, NoPages, MaxSaves)
        /\ UNCHANGED <<today, TODAY, build>>

RunHoroscope ==
    \E h \in Headings, resp \in HoroscopeOutcomes :
        /\ RunAgent(Cfg([type |-> "llm_horoscope"]), h, resp, NoPages, MaxSaves)
        /\ UNCHANGED <<today, TODAY, build>>

RunSearch ==
    \E h \in Headings, schema \in Schemas :
        \E resp \in SearchOutcomeTable[schema] :
            \/ /\ RunAgent(Cfg([type |-> "llm_search", schema |-> schema]), h, resp,
                        NoPages, MaxSaves)
               /\ UNCHANGED <<today, TODAY, build>>
            \/ /\ schema = "bullets"
               /\ RunAgent(Cfg([type |-> "llm_search"]), h, resp, NoPages, MaxSaves)
               /\ UNCHANGED <<today, TODAY, build>>

RunGroceries ==
    \E h \in Headings, pages \in GroceryPages :
        /\ RunAgent(Cfg([type |-> "groceries"]), h, BackendError, pages, MaxSaves)
        /\ UNCHANGED <<today, TODAY, build>>

RunUnknown ==
    \E h \in Headings, opts \in {[type |-> "rss"], [query |-> "tea"]} :
        /\ RunAgent(Cfg(opts), h, BackendError, NoPages, MaxSaves)
        /\ UNCHANGED <<today, TODAY, build>>

RunNonDict ==
    \E h \in Headings : /\ RunAgent(NonDictCfg, h, BackendError, NoPages, MaxSaves)
                        /\ UNCHANGED <<today, TODAY, build>>

Next ==
    \/ RunMath
    \/ RunBible
    \/ RunHoroscope
    \/ RunSearch
    \/ RunGroceries
    \/ RunUnknown
    \/ RunNonDict

Spec == Init /\ [][Next]_vars

----------------------------------------------------------------------------
(* Repeated runs of the agents that own a history slice *)

MaxRepeatSaves == 3

RepeatMathOutcomes ==
    { BackendError,
      BackendText(MathT(<<Prob(<<"A">>), Prob(<<"b">>)>>)),
      BackendText(MathT(<<Prob(<<"a">>), Prob(<<WS, "A", WS>>)>>)),
      BackendText(Fenced(MathT(<<Prob(<<"c">>)>>))) }

RepeatBibleOutcomes ==
    { BackendError,
      BackendText(Verse(<<"John", WS, "3:16">>, <<"For", WS, "God">>)),
      BackendText(Verse(<<"Ps", WS, "23:1">>, <<"The", WS, "Lord">>)) }

RepeatHoroscopeOutcomes ==
    { BackendError, BackendText(Reading(<<"Steady", WS, "day">>, <<"Rest">>)) }

RepeatMath ==
    \E h \in Headings, resp \in RepeatMathOutcomes :
        /\ RunAgent(Cfg([type |-> "llm_math"]), h, resp, NoPages, MaxRepeatSaves)
        /\ UNCHANGED <<today, TODAY, build>>

RepeatBible ==
    \E h \in Headings, resp \in RepeatBibleOutcomes :
        /\ RunAgent(Cfg([type |-> "llm_bible"]), h, resp, NoPages, MaxRepeatSaves)
        /\ UNCHANGED <<today, TODAY, build>>

RepeatHoroscope ==
    \E h \in Headings, resp \in RepeatHoroscopeOutcomes :
        /\ RunAgent(Cfg([type |-> "llm_horoscope"]), h, resp, NoPages, MaxRepeatSaves)
        /\ UNCHANGED <<today, TODAY, build>>

RepeatNext ==
    \/ RepeatMath
    \/ RepeatBible
    \/ RepeatHoroscope

SpecRepeat == Init /\ [][RepeatNext]_vars

----------------------------------------------------------------------------
(* llm_horoscope run again and again while the calendar date moves on *)

MaxDays == 2

\* datetime.date.today() returns the next day from now on
Midnight ==
    /\ today < FirstDay + MaxDays
    /\ today' = today + 1
    /\ UNCHANGED <<storage, TODAY, call, agent, out, ext, nsaves, recorded, build>>

DayHoroscope ==
    \E h \in Headings, resp \in HoroscopeOutcomes :
        /\ RunAgent(Cfg([type |-> "llm_horoscope"]), h, resp, NoPages, MaxRepeatSaves)
        /\ UNCHANGED <<today, TODAY, build>>

DaysNext ==
    \/ DayHoroscope
    \/ Midnight

SpecDays == Init /\ [][DaysNext]_vars

----------------------------------------------------------------------------
(* Digest assembly: minion.build_sections and orchestrator.build_digest.   *)
(* topics.yml is [defaults |-> <<>> or <<n>>, topics |-> sequence of       *)
(* [heading, agents]]; defaults <<n>> sets max_items_per_section to n.     *)
(* build.pc is the position in the assembler: "topic" at the head of the   *)
(* loop over topics, "agent" at the head of the loop over the agents of    *)
(* topic build.t, "done" after the return, "raised" when the runner raised *)

MaxTopics == 2
MaxAgents == 2

Topic(heading, agents) == [heading |-> heading, agents |-> agents]

SeqsUpTo(S, n) == UNION {[1..k -> S] : k \in 0..n}

DigestAgents ==
    {Cfg([type |-> "llm_math"]), Cfg([type |-> "groceries"]), Cfg([type |-> "rss"]), NonDictCfg}

Defaults == {<<>>, <<0>>, <<2>>}

TopicDocs ==
    { [defaults |-> d,
       topics |-> [i \in 1..Len(ls) |-> Topic(<<"Topic", ToString(i)>>, ls[i])]] :
         d \in Defaults, ls \in SeqsUpTo(SeqsUpTo(DigestAgents, MaxAgents), MaxTopics) }

\* what the backend answers and the retailers serve while a digest is built
DigestInputs ==
    { [resp |-> r, pages |-> p] :
        r \in {BackendError, BackendText(MathT(<<Prob(<<"A">>), Prob(<<"b">>)>>))},
        p \in {NoPages,
               <<Page(TRUE, {"hytteost", "aeg"}), NoPage, Page(TRUE, {"blaabaer"}), NoPage,
                 Page(TRUE, {"aeg", "peanut butter", "hytteost"})>>} }

\* the inputs the agent of configuration cfg reads
InputsOf(cfg) ==
    IF ~cfg.isdict THEN {in \in DigestInputs : in.resp = BackendError /\ in.pages = NoPages}
    ELSE IF CfgGet(cfg, "type", "None") = "groceries"
         THEN {in \in DigestInputs : in.resp = BackendError}
    ELSE IF CfgGet(cfg, "type", "None") \in {"llm_math", "llm_bible", "llm_horoscope", "llm_search"}
         THEN {in \in DigestInputs : in.pages = NoPages}
    ELSE {in \in DigestInputs : in.resp = BackendError /\ in.pages = NoPages}

\* int(spec.get("defaults",{}).get("max_items_per_section",5))
max_items(doc) == IF Len(doc.defaults) = 0 THEN 5 ELSE doc.defaults[1]

\* the topic and the agent configuration the loops are at
CurrentTopic == build.doc.topics[build.t]
CurrentAgent == CurrentTopic.agents[build.a]

\* an assembler that gives up at the first runner result
Aborted(b, res, body) == [b EXCEPT !.pc = "raised"]

\* the assembler after a runner call that ended res: a raise leaves the
\* assembler, a Section goes through the loop body `body`
Collected(b, res, body) ==
    IF res.kind = "raise" THEN [b EXCEPT !.pc = "raised"]
    ELSE [b EXCEPT !.a = @ + 1, !.combined = body]

\* minion.build_sections, lines 26-29
build_sections_start ==
    /\ build.pc = "idle"
    /\ \E doc \in TopicDocs :
          build' = [NoBuild EXCEPT !.pc = "topic", !.entry = "minion", !.doc = doc,
                                   !.max_items = max_items(doc), !.t = 1]
    /\ UNCHANGED <<storage, today, TODAY, call, agent, out, ext, nsaves, recorded>>

\* lines 30-32
build_sections_topic ==
    /\ build.pc = "topic"
    /\ build.entry = "minion"
    /\ build.t <= Len(build.doc.topics)
    /\ build' = [build EXCEPT !.pc = "agent", !.a = 1, !.heading = CurrentTopic.heading,
                              !.combined = <<>>]
    /\ UNCHANGED <<storage, today, TODAY, call, agent, out, ext, nsaves, recorded>>

\* lines 33-36: one pass of the loop over the topic's agents
build_sections_agent ==
    /\ build.pc = "agent"
    /\ build.entry = "minion"
    /\ build.a <= Len(CurrentTopic.agents)
    /\ \E in \in InputsOf(CurrentAgent) :
          /\ RunAgent(CurrentAgent, build.heading, in.resp, in.pages, MaxTopics * MaxAgents)
          /\ build' = Collected(build, out',
                                IF Len(out'.sec.items) > 0
                                THEN build.combined \o out'.sec.items
                                ELSE build.combined)
    /\ UNCHANGED <<today, TODAY>>

\* lines 37-38
build_sections_close ==
    /\ build.pc = "agent"
    /\ build.entry = "minion"
    /\ build.a > Len(CurrentTopic.agents)
    /\ build' = [build EXCEPT
                    !.pc = "topic", !.t = @ + 1,
                    !.sections = IF Len(build.combined) > 0
                                 THEN Append(@, Section(build.heading,
                                                        SliceTo(build.combined, build.max_items)))
                                 ELSE @]
    /\ UNCHANGED <<storage, today, TODAY, call, agent, out, ext, nsaves, recorded>>

\* line 39
build_sections_return ==
    /\ build.pc = "topic"
    /\ build.entry = "minion"
    /\ build.t > Len(build.doc.topics)
    /\ build' = [build EXCEPT !.pc = "done"]
    /\ UNCHANGED <<storage, today, TODAY, call, agent, out, ext, nsaves, recorded>>

\* orchestrator.build_digest, lines 58-62: defaults is read and never used
build_digest_start ==
    /\ build.pc = "idle"
    /\ \E doc \in TopicDocs :
          build' = [NoBuild EXCEPT !.pc = "topic", !.entry = "orchestrator", !.doc = doc,
                                   !.t = 1]
    /\ UNCHANGED <<storage, today, TODAY, call, agent, out, ext, nsaves, recorded>>

\* lines 63-65
build_digest_topic ==
    /\ build.pc = "topic"
    /\ build.entry = "orchestrator"
    /\ build.t <= Len(build.doc.topics)
    /\ build' = [build EXCEPT !.pc = "agent", !.a = 1, !.heading = CurrentTopic.heading,
                              !.combined = <<>>]
    /\ UNCHANGED <<storage, today, TODAY, call, agent, out, ext, nsaves, recorded>>

\* lines 66-79: the runner's result is a dict whose items are a list
build_digest_agent ==
    /\ build.pc = "agent"
    /\ build.entry = "orchestrator"
    /\ build.a <= Len(CurrentTopic.agents)
    /\ \E in \in InputsOf(CurrentAgent) :
          /\ RunAgent(CurrentAgent, build.heading, in.resp, in.pages, MaxTopics * MaxAgents)
          /\ build' = Collected(build, out', build.combined \o out'.sec.items)
    /\ UNCHANGED <<today, TODAY>>

NoItems == Item(<<"(no items)">>, <<"No items produced for this section.">>, <<>>)

\* lines 80-83
build_digest_close ==
    /\ build.pc = "agent"
    /\ build.entry = "orchestrator"
    /\ build.a > Len(CurrentTopic.agents)
    /\ build' = [build EXCEPT
                    !.pc = "topic", !.t = @ + 1,
                    !.sections = Append(@, Section(build.heading,
                                                   IF Len(build.combined) = 0
                                                   THEN <<NoItems>>
                                                   ELSE build.combined))]
    /\ UNCHANGED <<storage, today, TODAY, call, agent, out, ext, nsaves, recorded>>

\* lines 85-95: the sections are rendered
build_digest_return ==
    /\ build.pc = "topic"
    /\ build.entry = "orchestrator"
    /\ build.t > Len(build.doc.topics)
    /\ build' = [build EXCEPT !.pc = "done"]
    /\ UNCHANGED <<storage, today, TODAY, call, agent, out, ext, nsaves, recorded>>

DigestNext ==
    \/ build_sections_start
    \/ build_sections_topic
    \/ build_sections_agent
    \/ build_sections_close
    \/ build_sections_return
    \/ build_digest_start
    \/ build_digest_topic
    \/ build_digest_agent
    \/ build_digest_close
    \/ build_digest_return

SpecDigest == Init /\ [][DigestNext]_vars

----------------------------------------------------------------------------
(* Properties of digest assembly *)

\* C1: when digest assembly returns, its result holds exactly one Section
\* per topic of topics.yml, in declaration order (the i-th Section carries
\* the i-th topic's heading), and every Section has at least one Item.
C1_OneSectionPerTopic ==
    build.pc = "done" =>
        /\ Len(build.sections) = Len(build.doc.topics)
        /\ \A i \in 1..Len(build.sections) :
              /\ build.sections[i].heading = build.doc.topics[i].heading
              /\ Len(build.sections[i].items) >= 1

\* the first cap items of items, all of them when there are no more than cap
FirstItems(items, cap) == IF Len(items) > cap THEN SubSeq(items, 1, cap) ELSE items

\* C3: each runner result is appended to the topic's items in agent order,
\* and a topic that produced items gets a Section holding the first
\* max_items_per_section of them (all of them when the cap is not exceeded).
C3_TruncatedToCap ==
    [][/\ (build.pc = "agent" /\ build'.pc = "agent") =>
              build'.combined = build.combined \o out'.sec.items
       /\ (build.pc = "agent" /\ build'.pc = "topic" /\ Len(build.combined) > 0) =>
              /\ Len(build'.sections) = Len(build.sections) + 1
              /\ build'.sections[Len(build'.sections)].items =
                    FirstItems(build.combined, max_items(build.doc))]_vars

----------------------------------------------------------------------------
(* Properties of one runner call.  call, agent, out and ext describe the   *)
(* last call of _run_agent.                                                *)

CallType == CfgGet(call.cfg, "type", "None")
CallSchema == CfgGet(call.cfg, "schema", "bullets")
LlmTypes == {"llm_math", "llm_bible", "llm_horoscope", "llm_search"}

\* the last call dispatched an agent of one of the types in types
Called(types) == call.fn = "_run_agent" /\ call.cfg.isdict /\ CallType \in types

\* a Section made of one fallback Item
FallbackTitles(heading) ==
    {<<"Math (fallback)">>, <<"Bible (fallback)">>, <<"Horoscope (fallback)">>, heading}

IsFallback(sec) == Len(sec.items) = 1 /\ sec.items[1].title \in FallbackTitles(sec.heading)

\* C2: every call of _run_agent returns, without raising, a Section with the
\* heading it was given; when the dispatched agent raised, that Section is
\* one "(agent exception)" Item whose body names the agent type.
C2_RunnerTotal ==
    call.fn = "_run_agent" =>
        /\ out.kind = "return"
        /\ out.sec.heading = call.heading
        /\ agent.kind = "raise" =>
              /\ Len(out.sec.items) = 1
              /\ out.sec.items[1].title = <<"(agent exception)">>
              /\ \E i \in 1..Len(out.sec.items[1].rendered) :
                    out.sec.items[1].rendered[i] = CallType

\* C7: an LLM agent returns a Section whatever the backend did, and one
\* fallback Item when the backend gave no text (no key, or the request failed).
C7_AgentsContainFailures ==
    Called(LlmTypes) =>
        /\ agent.kind = "return"
        /\ call.resp.kind # "text" => IsFallback(agent.sec)

\* C8: whenever the extractor ran, what it returned is a mapping or None,
\* and on None the calling agent returned one fallback Item.
C8_MappingOrAbsent ==
    (call.fn = "_run_agent" /\ call.calls = 1) =>
        /\ IsDict(ext) \/ ext = None
        /\ ext = None => (agent.kind = "return" /\ IsFallback(agent.sec))

\* C9: every Item an agent or the runner returned has a non-empty rendered body.
C9_RenderedNonEmpty ==
    call.fn = "_run_agent" =>
        /\ \A i \in 1..Len(agent.sec.items) : Len(agent.sec.items[i].rendered) > 0
        /\ \A i \in 1..Len(out.sec.items) : Len(out.sec.items[i].rendered) > 0

----------------------------------------------------------------------------
(* The live-search filter *)

\* the entries the backend returned under the schema's key
Entries == ListField(OrElse(ext, JObj(<<>>)), SchemaKey(CallSchema)).l

\* source URL, date and name of an entry; a bullet is a plain string with
\* no date field, its URL is the URL it quotes
UrlOf(schema, e) ==
    IF schema = "bullets"
    THEN IF IsStr(e) /\ \E i \in 1..Len(e.v) : e.v[i] = Url[1] THEN Url ELSE <<>>
    ELSE StrField(e, <<"source_url">>).s

DateOf(schema, e) ==
    CASE schema = "bullets" -> <<>>
      [] schema = "grocery_prices" -> StrField(e, <<"observed_date">>).s
      [] OTHER -> StrField(e, <<"date">>).s

NameOf(schema, e) ==
    CASE schema = "grocery_prices" -> StrField(e, <<"item">>).s
      [] schema = "mma_news" -> StrField(e, <<"event">>).s
      [] schema = "science_spirit" -> StrField(e, <<"title">>).s
      [] OTHER -> StrField(e, <<"headline">>).s

\* the schema's recency window in days (a week where the code names none)
Window(schema) ==
    CASE schema = "mma_news" -> 3
      [] schema = "good_news" -> 3
      [] OTHER -> 7

\* date is an ISO date no more than days days before now (a date after now
\* counts as inside the window)
InWindow(date, days, now) == IsIsoDate(date) /\ now - DayOf(date) <= days

PassesFilter(schema, e, now) ==
    Len(UrlOf(schema, e)) > 0 /\ InWindow(DateOf(schema, e), Window(schema), now)

\* Item it presents entry e: a bullet is rendered as it is, any other entry
\* gives its name to the title
ShowsEntry(schema, e, it) ==
    IF schema = "bullets"
    THEN IsStr(e) /\ Len(e.v) > 0 /\ it.rendered = e.v
    ELSE /\ Len(NameOf(schema, e)) > 0
         /\ Len(it.title) >= Len(NameOf(schema, e))
         /\ SubSeq(it.title, 1, Len(NameOf(schema, e))) = NameOf(schema, e)

\* C6: no Item of the Section llm_search returned presents an entry that has
\* no source URL or whose date is missing, unparseable or outside the
\* schema's recency window.
C6_FilteredNeverEmitted ==
    (Called({"llm_search"}) /\ agent.kind = "return") =>
        \A i \in 1..Len(Entries) :
            ~PassesFilter(CallSchema, Entries[i], today) =>
                \A j \in 1..Len(agent.sec.items) :
                    ~ShowsEntry(CallSchema, Entries[i], agent.sec.items[j])

----------------------------------------------------------------------------
(* Properties of the history store.  A primed condition on call and agent  *)
(* describes the call that made the step.                                  *)

\* the slices a reader of the history file gets
Slices(st) == _load_hist(st).rec

\* the last call was a successful run of the agent of type t
Succeeded(t) == Called({t}) /\ agent.kind = "return" /\ ~IsFallback(agent.sec)

\* the fingerprint of the problem an Item of llm_math presents
ProblemOf(it) == SubSeq(it.rendered, 1, Find(it.rendered, TipMark) - 1)
Fingerprint(it) == _sha(Lower(ProblemOf(it)))
Fingerprints(items) == [i \in 1..Len(items) |-> Fingerprint(items[i])]

Holds(hashes, h) == \E j \in 1..Len(hashes) : hashes[j] = h

\* C4 as stated: a successful llm_math run emits no Item whose fingerprint
\* has ever been recorded in math_hashes.
C4_NeverReEmitted ==
    [][Succeeded("llm_math")' =>
          \A i \in 1..Len(agent'.sec.items) :
              Fingerprint(agent'.sec.items[i]) \notin recorded]_vars

\* C4 amended: a successful llm_math run emits no Item whose fingerprint is
\* in math_hashes when the run starts.
C4_NoReEmitWhileKept ==
    [][Succeeded("llm_math")' =>
          \A i \in 1..Len(agent'.sec.items) :
              ~Holds(Slices(storage).math_hashes, Fingerprint(agent'.sec.items[i]))]_vars

\* the problems the last llm_math call walked
Problems == SliceTo(ListField(OrElse(ext, JObj(<<>>)), <<"math">>).l, 2)

\* a run that emitted an Item and discarded a problem whose fingerprint the
\* history holds
C4_Discarded ==
    /\ Succeeded("llm_math")
    /\ \E k \in 1..Len(Problems) :
          /\ Holds(Slices(storage).math_hashes, _sha(Lower(StrField(Problems[k], <<"problem">>).s)))
          /\ \A i \in 1..Len(agent.sec.items) :
                Fingerprint(agent.sec.items[i]) # _sha(Lower(StrField(Problems[k], <<"problem">>).s))

\* new is what is left of old followed by added when only the newest cap
\* entries are kept
KeepsNewest(new, old, added, cap) ==
    /\ Len(new) = (IF Len(old) + Len(added) <= cap THEN Len(old) + Len(added) ELSE cap)
    /\ \A i \in 1..Len(new) : new[i] = (old \o added)[Len(old) + Len(added) - Len(new) + i]

\* C5: math_hashes never holds more than 200 entries and bible_refs never
\* more than 60; a successful llm_math run leaves math_hashes equal to the
\* newest 200 of the previous slice followed by the fingerprints of the
\* Items it emitted, in order, and a successful llm_bible run leaves
\* bible_refs equal to the newest 60 of the previous slice followed by the
\* reference it emitted.
C5_BoundedFifo ==
    [][/\ Len(Slices(storage').math_hashes) <= MathCap
       /\ Len(Slices(storage').bible_refs) <= BibleCap
       /\ Succeeded("llm_math")' =>
             KeepsNewest(Slices(storage').math_hashes, Slices(storage).math_hashes,
                         Fingerprints(agent'.sec.items), MathCap)
       /\ Succeeded("llm_bible")' =>
             KeepsNewest(Slices(storage').bible_refs, Slices(storage).bible_refs,
                         <<agent'.sec.items[1].title>>, BibleCap)]_vars

\* a full math_hashes whose oldest entry was evicted by the last run
C5_Evicted ==
    /\ Succeeded("llm_math")
    /\ Len(Slices(storage).math_hashes) = MathCap
    /\ ~Holds(Slices(storage).math_hashes, FullHist.math_hashes[1])
    /\ Slices(storage).math_hashes[MathCap] =
          Fingerprint(agent.sec.items[Len(agent.sec.items)])

\* C10: a call of llm_search or groceries, and a call that ended in one
\* fallback Item, leave the history file as it was; a call of llm_math,
\* llm_bible or llm_horoscope leaves the two slices it does not own as they
\* were.
C10_OwnSliceOnSuccess ==
    [][/\ Called({"llm_search", "groceries"})' => storage' = storage
       /\ (call'.fn = "_run_agent" /\ agent'.kind = "return" /\ IsFallback(agent'.sec)) =>
             storage' = storage
       /\ Called({"llm_math"})' =>
             /\ Slices(storage').bible_refs = Slices(storage).bible_refs
             /\ Slices(storage').last_horoscope_date = Slices(storage).last_horoscope_date
       /\ Called({"llm_bible"})' =>
             /\ Slices(storage').math_hashes = Slices(storage).math_hashes
             /\ Slices(storage').last_horoscope_date = Slices(storage).last_horoscope_date
       /\ Called({"llm_horoscope"})' =>
             /\ Slices(storage').math_hashes = Slices(storage).math_hashes
             /\ Slices(storage').bible_refs = Slices(storage).bible_refs]_vars

\* a successful llm_horoscope run on a full history: the date is today's and
\* the other two slices are the ones the file held
C10_DateOnlyChanged ==
    /\ Succeeded("llm_horoscope")
    /\ storage.kind = "record"
    /\ storage.rec.last_horoscope_date = <<Iso[today]>>
    /\ storage.rec.last_horoscope_date # FullHist.last_horoscope_date
    /\ storage.rec.math_hashes = FullHist.math_hashes
    /\ storage.rec.bible_refs = FullHist.bible_refs

----------------------------------------------------------------------------
(* Unrecognised agent types *)

KnownTypes == LlmTypes \cup {"groceries"}

\* the assembler is about to hand the runner a mapping whose type is none of
\* the recognised kinds
AtUnknownAgent ==
    /\ build.pc = "agent"
    /\ build.a <= Len(CurrentTopic.agents)
    /\ CurrentAgent.isdict
    /\ CfgGet(CurrentAgent, "type", "None") \notin KnownTypes

\* C11: for an agent configuration whose type is not recognised the runner
\* returns a Section of exactly one Item whose body names that type, sends
\* no backend request, saves nothing and leaves the history file as it was;
\* the assembler takes the Item and goes on with the next agent of the topic.
C11_UnknownTypeDiagnosed ==
    [][AtUnknownAgent =>
          /\ out'.kind = "return"
          /\ out'.sec.heading = build.heading
          /\ Len(out'.sec.items) = 1
          /\ \E i \in 1..Len(out'.sec.items[1].rendered) :
                out'.sec.items[1].rendered[i] = CfgGet(CurrentAgent, "type", "None")
          /\ call'.calls = 0
          /\ call'.saves = 0
          /\ storage' = storage
          /\ build'.pc = "agent"
          /\ build'.t = build.t
          /\ build'.a = build.a + 1
          /\ build'.doc = build.doc
          /\ build'.sections = build.sections
          /\ build'.combined = build.combined \o out'.sec.items]_vars

\* a finished digest in which a topic holds the diagnostic Item followed by
\* the Items of a later agent, and a later topic has its Section too
C11_ContinuedAfterUnknown ==
    /\ build.pc = "done"
    /\ \E i \in 1..(Len(build.sections) - 1) :
          \E j \in 1..(Len(build.sections[i].items) - 1) :
              /\ build.sections[i].items[j].title = <<"(agent error)">>
              /\ build.sections[i].items[j + 1].title # <<"(agent error)">>

----------------------------------------------------------------------------
(* The live-search fallback *)

\* the text the backend gave the last call, as the agent received it
RawText == IF call.resp.kind = "text" THEN Strip(call.resp.text) ELSE <<>>

\* the one Item that stands for a search without results
RawItem ==
    Item(call.heading, IF Len(RawText) > 0 THEN RawText ELSE <<"No results found.">>, <<>>)

\* the entries of the response the schema's branch accepted
AcceptedEntries ==
    {i \in 1..Len(Entries) : SearchEntry(CallSchema, Entries[i], call.heading, today, TODAY).accept}

\* C12: a llm_search call that extracted nothing returns, and a call that
\* returns after accepting no entry holds exactly one Item, whose body is the
\* raw backend text ("No results found." when that text is empty); a call
\* that accepted entries returns one Item per accepted entry and none whose
\* body is the raw text.
C12_RawTextIffNothingAccepted ==
    Called({"llm_search"}) =>
        /\ (call.calls = 1 /\ ext = None) => agent.kind = "return"
        /\ (agent.kind = "return" /\ AcceptedEntries = {}) => agent.sec.items = <<RawItem>>
        /\ (agent.kind = "return" /\ AcceptedEntries # {}) =>
              /\ Len(agent.sec.items) = Cardinality(AcceptedEntries)
              /\ \A j \in 1..Len(agent.sec.items) :
                    agent.sec.items[j].rendered # RawItem.rendered

\* a good_news call whose only entry is dated ten days back: the Section is
\* the raw text alone
C12_StaleNewsFallsBack ==
    /\ Called({"llm_search"})
    /\ CallSchema = "good_news"
    /\ Len(Entries) = 1
    /\ DateOf(CallSchema, Entries[1]) = <<Iso[today - 10]>>
    /\ Len(UrlOf(CallSchema, Entries[1])) > 0
    /\ Len(RawText) > 0
    /\ agent.kind = "return"
    /\ agent.sec.items = <<Item(call.heading, RawText, <<>>)>>

----------------------------------------------------------------------------
(* Loading the history *)

HistoryOwners == {"llm_math", "llm_bible", "llm_horoscope"}

\* C13: whatever the history file holds, what _load_hist hands the agent is a
\* mapping, the default empty record unless the file holds a record, and no
\* agent fails on reading or updating the history it loaded: the only raise
\* before the backend request is the missing key, and the update of the
\* date never raises.
C13_LoadFailsSoft ==
    [][Called(HistoryOwners)' =>
          /\ _load_hist(storage).isdict
          /\ storage.kind # "record" => _load_hist(storage).rec = DefaultHist
          /\ (agent'.kind = "raise" /\ call'.calls = 0) => call'.resp.kind = "nokey"
          /\ agent'.kind = "raise" => agent'.err # "TypeError"]_vars

----------------------------------------------------------------------------
(* The course of one agent invocation *)

\* C14: every invocation of an LLM agent sends exactly one backend request
\* and ends by returning a Section, either the emitted one or one fallback
\* Item; it saves the history at most once, exactly once when an agent that
\* owns a slice emits, and never when it falls back or is llm_search.
C14_OneCallThenEmit ==
    Called(LlmTypes) =>
        /\ agent.kind = "return"
        /\ call.calls = 1
        /\ call.saves <= 1
        /\ IsFallback(agent.sec) => call.saves = 0
        /\ CallType = "llm_search" => call.saves = 0
        /\ (CallType \in HistoryOwners /\ ~IsFallback(agent.sec)) => call.saves = 1

----------------------------------------------------------------------------
(* The extractor's fallback *)

\* the text the extractor parses: the response as the agent received it,
\* without its fence
Parsed == StripFence(RawText)

\* the substring from the first "{" to the last "}" of t
Braced(t) == SubSeq(t, Find(t, "{"), RFind(t, "}"))

HasBraced(t) == Find(t, "{") # 0 /\ RFind(t, "}") > Find(t, "{")

\* C15: when the text does not parse as it is and its substring from the
\* first "{" to the last "}" is a valid JSON object, the extractor returns
\* the parse of that substring, unaltered.
C15_ParsesBeforeRepair ==
    (/\ call.fn = "_run_agent"
     /\ call.calls = 1
     /\ Len(RawText) > 0
     /\ ~JsonLoads(Parsed).ok
     /\ HasBraced(Parsed)
     /\ JsonLoads(Braced(Parsed)).ok) =>
        ext = JsonLoads(Braced(Parsed)).val

----------------------------------------------------------------------------
(* The date marker of llm_horoscope *)

\* the horoscope object of the extracted data, {} when there is none
HoroscopeOf(data) ==
    IF IsDict(data) THEN OrElse(DictGet(data, <<"horoscope">>), JObj(<<>>)) ELSE JObj(<<>>)

\* the backend generated a reading: a daily text and a week that is text
Generated ==
    /\ call.calls = 1
    /\ IsDict(ext)
    /\ ~StrField(HoroscopeOf(ext), <<"daily">>).raised
    /\ ~StrField(HoroscopeOf(ext), <<"week">>).raised
    /\ Len(StrField(HoroscopeOf(ext), <<"daily">>).s) > 0

\* C16: a llm_horoscope call sends its backend request whatever date the
\* history holds; when the backend generated a reading the call emits that
\* reading, and after every successful call last_horoscope_date is the
\* date of the day of the call.
C16_MarkerNeverGates ==
    [][(today' = today /\ Called({"llm_horoscope"})') =>
          /\ call'.resp.kind # "nokey" => call'.calls = 1
          /\ Succeeded("llm_horoscope")' =>
                Slices(storage').last_horoscope_date = <<Iso[today]>>
          /\ (Generated' /\ storage.kind # "nonrecord") =>
                /\ Succeeded("llm_horoscope")'
                /\ agent'.sec.items =
                      <<Item(<<"Today">>,
                             StrField(HoroscopeOf(ext'), <<"daily">>).s \o <<WeekMark>>
                                 \o StrField(HoroscopeOf(ext'), <<"week">>).s,
                             <<>>)>>]_vars

\* the second successful call of one day: the history already held today's
\* date when it started, and the reading it generated is out
C16_SecondCallSameDay ==
    /\ Succeeded("llm_horoscope")
    /\ storage.kind = "record"
    /\ storage.rec.last_horoscope_date = <<Iso[today]>>
    /\ today = FirstDay
    /\ nsaves = 2
    /\ agent.sec.items[1].rendered[1] = "Busy"

----------------------------------------------------------------------------
(* Repeated fingerprints *)

NoRepeats(s) == \A i, j \in 1..Len(s) : s[i] = s[j] => i = j

\* C17: math_hashes, which holds no fingerprint twice at the start, never
\* holds one twice, and no Section llm_math returned presents two problems
\* with the same fingerprint.
C17_NoRepeatedFingerprint ==
    /\ NoRepeats(Slices(storage).math_hashes)
    /\ Succeeded("llm_math") => NoRepeats(Fingerprints(agent.sec.items))

====
